---- MODULE Spec2Model ----
(***************************************************************************)
(* Model of the DNS message engine of codecrafters-dns-server-rust:        *)
(* the wire codec of src/server/dns.rs (header bit packing, names with     *)
(* compression pointers, questions, answers, messages) and the resolvers   *)
(* and server loop of src/server/mod.rs.                                   *)
(*                                                                         *)
(* Bytes are naturals 0..255, byte strings are sequences of bytes, a       *)
(* label is the byte string of its content.  A Rust index i of a slice is  *)
(* position i + 1 of the sequence.  A panic (expect, assert!, index out of *)
(* range, checked arithmetic) is the result kind "panic"; a loop that      *)
(* never ends is the result kind "hang".                                   *)
(***************************************************************************)
EXTENDS Integers, Sequences, FiniteSets, TLC

VARIABLES
    overflow_checks, \* build profile: TRUE = arithmetic overflow panics, FALSE = it wraps
    step,            \* position of the codec harnesses
    arg,             \* input of the codec harnesses
    res,             \* results of the codec harnesses
    mode,            \* the resolver the server was built with: "dummy" or "forward"
    pc,              \* where the server is: "listen", "forward_send", "forward_recv",
                     \* "respond", "halted" (panic), "hung", "stopped" (loop left)
    buf,             \* DnsServer::work's receive buffer, kept across iterations
    received,        \* number of inbound datagrams received so far
    inbound,         \* what the last recv_from on the endpoint returned: a datagram
                     \* or an error
    source,          \* address the current datagram came from
    request,         \* the parsed request
    qi,              \* forwarding resolver: index of the question being forwarded
    answers,         \* the resolver's answer vector
    upstream,        \* events on the upstream socket for the current request
    sent             \* responses sent for the current request

srv == <<mode, pc, buf, received, inbound, source, request, qi, answers, upstream, sent>>
vars == <<overflow_checks, step, arg, res, srv>>

(***************************************************************************)
(* Machine arithmetic                                                      *)
(***************************************************************************)
RECURSIVE BitAnd(_, _)
BitAnd(a, b) ==
    IF a = 0 \/ b = 0 THEN 0
    ELSE (IF a % 2 = 1 /\ b % 2 = 1 THEN 1 ELSE 0) + 2 * BitAnd(a \div 2, b \div 2)

RECURSIVE BitOr(_, _)
BitOr(a, b) ==
    IF a = 0 THEN b
    ELSE IF b = 0 THEN a
    ELSE (IF a % 2 = 1 \/ b % 2 = 1 THEN 1 ELSE 0) + 2 * BitOr(a \div 2, b \div 2)

RECURSIVE Pow2(_)
Pow2(n) == IF n = 0 THEN 1 ELSE 2 * Pow2(n - 1)

Shr(a, n) == a \div Pow2(n)
Shl8(a, n) == (a * Pow2(n)) % 256       \* << on u8: the bits shifted out are lost
Shl16(a, n) == (a * Pow2(n)) % 65536    \* << on u16
Shl32(a, n) == a * Pow2(n)              \* << on u32, used on values below 2^8 << 24 only

Byte == 0..255

U16Be(v) == <<v \div 256, v % 256>>                 \* u16::to_be_bytes
U16FromBe(hi, lo) == hi * 256 + lo                  \* u16::from_be_bytes

RECURSIVE Flatten(_)
Flatten(ss) == IF ss = <<>> THEN <<>> ELSE Head(ss) \o Flatten(Tail(ss))

(***************************************************************************)
(* OpCode and RCode                                                        *)
(***************************************************************************)
Plain(t) == [tag |-> t, v |-> 0]
Unassigned(x) == [tag |-> "Unassigned", v |-> x]
ConvOk(c) == [ok |-> TRUE, code |-> c]
ConvErr == [ok |-> FALSE, code |-> Plain("none")]

OpCodeToU8(o) ==
    CASE o.tag = "Query" -> 0
      [] o.tag = "IQuery" -> 1
      [] o.tag = "Status" -> 2
      [] o.tag = "Notify" -> 4
      [] o.tag = "Update" -> 5
      [] o.tag = "DnsStatefulOperations" -> 6
      [] o.tag = "Unassigned" -> o.v

\* try_from with a catch-all arm that accepts every byte as Unassigned.
OpCodeTryFromAny(value) ==
    CASE value = 0 -> ConvOk(Plain("Query"))
      [] value = 1 -> ConvOk(Plain("IQuery"))
      [] value = 2 -> ConvOk(Plain("Status"))
      [] value = 4 -> ConvOk(Plain("Notify"))
      [] value = 5 -> ConvOk(Plain("Update"))
      [] value = 6 -> ConvOk(Plain("DnsStatefulOperations"))
      [] OTHER -> ConvOk(Unassigned(value))

OpCodeTryFrom(value) ==
    CASE value = 0 -> ConvOk(Plain("Query"))
      [] value = 1 -> ConvOk(Plain("IQuery"))
      [] value = 2 -> ConvOk(Plain("Status"))
      [] value = 3 -> ConvOk(Unassigned(3))
      [] value = 4 -> ConvOk(Plain("Notify"))
      [] value = 5 -> ConvOk(Plain("Update"))
      [] value = 6 -> ConvOk(Plain("DnsStatefulOperations"))
      [] value \in 7..15 -> ConvOk(Unassigned(value))
      [] value \in 16..255 -> ConvErr

RCodeToU8(r) ==
    CASE r.tag = "NoError" -> 0
      [] r.tag = "FormatError" -> 1
      [] r.tag = "ServerError" -> 2
      [] r.tag = "NameError" -> 3
      [] r.tag = "NotImplemented" -> 4
      [] r.tag = "Refused" -> 5
      [] r.tag = "Unassigned" -> r.v

RCodeTryFrom(value) ==
    CASE value = 0 -> ConvOk(Plain("NoError"))
      [] value = 1 -> ConvOk(Plain("FormatError"))
      [] value = 2 -> ConvOk(Plain("ServerError"))
      [] value = 3 -> ConvOk(Plain("NameError"))
      [] value = 4 -> ConvOk(Plain("NotImplemented"))
      [] value = 5 -> ConvOk(Plain("Refused"))
      [] value \in 6..15 -> ConvOk(Unassigned(value))
      [] value \in 16..255 -> ConvErr

(***************************************************************************)
(* Header                                                                  *)
(***************************************************************************)
HeaderDefault ==
    [id |-> 0, qr |-> FALSE, opcode |-> Plain("Query"), aa |-> FALSE, tc |-> FALSE,
     rd |-> FALSE, ra |-> FALSE, z |-> 0, rcode |-> Plain("NoError"),
     qd_count |-> 0, an_count |-> 0, ns_count |-> 0, ar_count |-> 0]

HeaderEncode(self) ==
    LET id == U16Be(self.id)
        qr == IF self.qr THEN 128 ELSE 0
        opcode == Shl8(OpCodeToU8(self.opcode), 3)
        aa == IF self.aa THEN 4 ELSE 0
        tc == IF self.tc THEN 2 ELSE 0
        rd == IF self.rd THEN 1 ELSE 0
        ra == IF self.ra THEN 1 ELSE 0
        z == Shl8(self.z, 4)
        rcode == RCodeToU8(self.rcode)
        qd_count == U16Be(self.qd_count)
        an_count == U16Be(self.an_count)
        ns_count == U16Be(self.ns_count)
        ar_count == U16Be(self.ar_count)
    IN  <<id[1], id[2],
          BitOr(BitOr(BitOr(BitOr(qr, opcode), aa), tc), rd),
          BitOr(BitOr(ra, z), rcode),
          qd_count[1], qd_count[2], an_count[1], an_count[2],
          ns_count[1], ns_count[2], ar_count[1], ar_count[2]>>

\* data is a 12-byte array.  The result is [ok, h]: ok is FALSE when one of the
\* two expect() calls on the opcode and rcode conversions panics.
HeaderParseFrom(data) ==
    LET qr_opcode_aa_tc_rd == data[3]
        ra_z_rcode == data[4]
        opcode == OpCodeTryFrom(Shr(BitAnd(qr_opcode_aa_tc_rd, 120), 3))
        rcode == RCodeTryFrom(BitAnd(ra_z_rcode, 15))
    IN  [ok |-> opcode.ok /\ rcode.ok,
         h |-> [id |-> U16FromBe(data[1], data[2]),
                qr |-> BitAnd(qr_opcode_aa_tc_rd, 128) = 128,
                opcode |-> opcode.code,
                aa |-> BitAnd(qr_opcode_aa_tc_rd, 4) = 4,
                tc |-> BitAnd(qr_opcode_aa_tc_rd, 2) = 2,
                rd |-> BitAnd(qr_opcode_aa_tc_rd, 1) = 1,
                ra |-> BitAnd(ra_z_rcode, 128) = 128,
                \* Rust: `ra_z_rcode & 0x70 >> 4`, and >> binds tighter than &
                z |-> BitAnd(ra_z_rcode, Shr(112, 4)),
                rcode |-> rcode.code,
                qd_count |-> U16FromBe(data[5], data[6]),
                an_count |-> U16FromBe(data[7], data[8]),
                ns_count |-> U16FromBe(data[9], data[10]),
                ar_count |-> U16FromBe(data[11], data[12])]]

(***************************************************************************)
(* Names: Label and LabelSequence                                          *)
(***************************************************************************)
IsCont(b) == b \in 128..191

\* Number of bytes of the UTF-8 sequence a lead byte opens; 0 for a byte that
\* opens none (a continuation byte, 0xC0, 0xC1, 0xF5..0xFF).
Utf8Width(b) ==
    CASE b < 128 -> 1
      [] b \in 194..223 -> 2
      [] b \in 224..239 -> 3
      [] b \in 240..244 -> 4
      [] OTHER -> 0

\* String::from_utf8 accepts exactly the well-formed UTF-8 byte strings: every
\* lead byte is followed by its continuation bytes (the first of them in the
\* narrower range that excludes overlong forms, surrogates and code points
\* above U+10FFFF), and every other byte is a continuation byte of a lead.
Utf8Valid(bs) ==
    \A i \in 1..Len(bs) :
        LET b == bs[i]
            w == Utf8Width(b)
        IN  IF w > 0
            THEN /\ i + w - 1 <= Len(bs)
                 /\ \A j \in (i + 1)..(i + w - 1) : IsCont(bs[j])
                 /\ (b = 224 => bs[i + 1] >= 160)
                 /\ (b = 237 => bs[i + 1] <= 159)
                 /\ (b = 240 => bs[i + 1] >= 144)
                 /\ (b = 244 => bs[i + 1] <= 143)
            ELSE /\ IsCont(b)
                 /\ \E k \in 1..3 :
                       /\ i - k >= 1
                       /\ Utf8Width(bs[i - k]) > k
                       /\ \A j \in (i - k + 1)..(i - 1) : IsCont(bs[j])

\* Encoders return [ok, bytes]; ok is FALSE when the assert! of Label::encode fails.
LabelEncode(content) ==
    LET length == Len(content)
    IN  [ok |-> length <= 255, bytes |-> <<length % 256>> \o content]

LabelSequenceEncode(labels) ==
    LET enc == [i \in 1..Len(labels) |-> LabelEncode(labels[i])]
    IN  [ok |-> \A i \in 1..Len(labels) : enc[i].ok,
         bytes |-> Flatten([i \in 1..Len(labels) |-> enc[i].bytes]) \o <<0>>]

(***************************************************************************)
(* Question and Answer                                                     *)
(***************************************************************************)
QuestionEncode(q) ==
    LET name == LabelSequenceEncode(q.name)
    IN  [ok |-> name.ok,
         bytes |-> name.bytes
                   \o <<Shr(BitAnd(q.type, 65280), 8), BitAnd(q.type, 255)>>
                   \o <<Shr(BitAnd(q.class, 65280), 8), BitAnd(q.class, 255)>>]

AnswerEncode(a) ==
    LET name == LabelSequenceEncode(a.name)
        length == Len(a.data) % 65536
    IN  [ok |-> name.ok,
         bytes |-> name.bytes
                   \o <<Shr(BitAnd(a.type, 65280), 8), BitAnd(a.type, 255)>>
                   \o <<Shr(BitAnd(a.class, 65280), 8), BitAnd(a.class, 255)>>
                   \o <<(a.ttl \div 16777216) % 256, (a.ttl \div 65536) % 256,
                        (a.ttl \div 256) % 256, a.ttl % 256>>
                   \o <<Shr(BitAnd(length, 65280), 8), BitAnd(length, 255)>>
                   \o a.data]

(***************************************************************************)
(* Message                                                                 *)
(***************************************************************************)
HeaderSize == 12

MessageNew(header, questions, answer_vec) ==
    [header |-> header, questions |-> questions, answers |-> answer_vec]

\* Message::encode that leaves the answer section out.
MessageEncodeNoAnswers(m) ==
    LET qs == [i \in 1..Len(m.questions) |-> QuestionEncode(m.questions[i])]
    IN  [ok |-> \A i \in 1..Len(qs) : qs[i].ok,
         bytes |-> HeaderEncode(m.header) \o Flatten([i \in 1..Len(qs) |-> qs[i].bytes])]

MessageEncode(m) ==
    LET qs == [i \in 1..Len(m.questions) |-> QuestionEncode(m.questions[i])]
        as == [i \in 1..Len(m.answers) |-> AnswerEncode(m.answers[i])]
    IN  [ok |-> /\ \A i \in 1..Len(qs) : qs[i].ok
                /\ \A i \in 1..Len(as) : as[i].ok,
         bytes |-> HeaderEncode(m.header)
                   \o Flatten([i \in 1..Len(qs) |-> qs[i].bytes])
                   \o Flatten([i \in 1..Len(as) |-> as[i].bytes])]

InRange(data, i) == i >= 0 /\ i < Len(data)
At(data, i) == data[i + 1]

Panic == [kind |-> "panic"]

\* The loop stopped at an index it had already been at.
HangDetected == [kind |-> "panic"]

Hang == [kind |-> "hang"]

\* offset_index of a compressed label: the 14-bit offset minus 12, on u16.  The
\* subtraction traps in a build with overflow checks and wraps otherwise.
\* offset_index with a saturating subtraction.
PointerTargetSaturating(control_byte, next_byte, chk) ==
    LET wide == BitOr(Shl16(BitAnd(control_byte, 63), 8), next_byte)
    IN  [trap |-> FALSE, index |-> IF wide < HeaderSize THEN 0 ELSE wide - HeaderSize]

PointerTargetNoHeader(control_byte, next_byte, chk) ==
    [trap |-> FALSE, index |-> BitOr(Shl16(BitAnd(control_byte, 63), 8), next_byte)]

PointerTarget(control_byte, next_byte, chk) ==
    LET wide == BitOr(Shl16(BitAnd(control_byte, 63), 8), next_byte)
    IN  [trap |-> wide < HeaderSize /\ chk, index |-> (wide - HeaderSize) % 65536]

\* The while loop of parse_label_sequence.  The loop's control depends on
\* current_index alone, so reaching an index a second time means the loop never
\* ends: visited is the set of indices the loop has been at.
RECURSIVE LabelLoop(_, _, _, _, _, _)
LabelLoop(data, current_index, labels, compressed_label_index, visited, chk) ==
    IF ~ InRange(data, current_index)
    THEN [kind |-> "end", null_byte_found |-> FALSE, current_index |-> current_index,
          labels |-> labels, compressed_label_index |-> compressed_label_index]
    ELSE IF current_index \in visited THEN Hang
    ELSE LET control_byte == At(data, current_index)
             seen == visited \cup {current_index}
         IN  IF control_byte = 0
             THEN [kind |-> "end", null_byte_found |-> TRUE, current_index |-> current_index,
                   labels |-> labels, compressed_label_index |-> compressed_label_index]
             ELSE IF control_byte < 192
             THEN LET label_length == control_byte
                  IN  IF ~ InRange(data, current_index + label_length)
                      THEN Panic
                      ELSE LET content == SubSeq(data, current_index + 2,
                                                 current_index + label_length + 1)
                           IN  IF ~ Utf8Valid(content) THEN Panic
                               ELSE LabelLoop(data, current_index + label_length + 1,
                                              Append(labels, content),
                                              compressed_label_index, seen, chk)
             ELSE IF ~ InRange(data, current_index + 1) THEN Panic
             ELSE LET Jump(offset_index) ==
                          IF offset_index.trap THEN Panic
                          ELSE LabelLoop(data, offset_index.index, labels, current_index,
                                         seen, chk)
                  IN  Jump(PointerTarget(control_byte, At(data, current_index + 1), chk))

\* parse_label_sequence with the end index at the pointer's first byte.
ParseLabelSequenceUndercount(data, label_sequence_start_index, chk) ==
    LET Length(label_sequence_end_index, labels) ==
            IF label_sequence_end_index < label_sequence_start_index /\ chk
            THEN Panic
            ELSE [kind |-> "ok", labels |-> labels,
                  length |-> (label_sequence_end_index
                              - label_sequence_start_index) + 1]
        After(l) ==
            IF l.kind # "end" THEN l
            ELSE IF ~ l.null_byte_found THEN Panic
            ELSE Length(IF l.compressed_label_index = 0 THEN l.current_index
                        ELSE l.compressed_label_index,
                        l.labels)
    IN  After(LabelLoop(data, label_sequence_start_index, <<>>, 0, {}, chk))

\* Result: [kind |-> "ok", labels, length], Panic or Hang.  Without overflow
\* checks `label_sequence_end_index - label_sequence_start_index` wraps modulo
\* 2^64 when the end index is below the start index; the wrapped length is kept
\* here as the negative integer it is congruent to, and the caller's
\* `current_index += length` is taken modulo 2^64 by AddWrapped.
\* (Values computed once are passed to a local operator, here and below: After(l)
\* is the code that follows the loop, l the state the loop left.)
ParseLabelSequence(data, label_sequence_start_index, chk) ==
    LET Length(label_sequence_end_index, labels) ==
            IF label_sequence_end_index < label_sequence_start_index /\ chk
            THEN Panic
            ELSE [kind |-> "ok", labels |-> labels,
                  length |-> (label_sequence_end_index
                              - label_sequence_start_index) + 1]
        After(l) ==
            IF l.kind # "end" THEN l
            ELSE IF ~ l.null_byte_found THEN Panic
            ELSE Length(IF l.compressed_label_index = 0 THEN l.current_index
                        ELSE l.compressed_label_index + 1,
                        l.labels)
    IN  After(LabelLoop(data, label_sequence_start_index, <<>>, 0, {}, chk))

\* current_index += length on usize.  A negative sum stands for a wrapped index
\* near 2^64, which is outside every buffer.
AddWrapped(current_index, length) == current_index + length

U16At(data, i) == BitOr(Shl16(At(data, i), 8), At(data, i + 1))
\* A u32 read big-endian.  A value of 2^31 or more is kept as the negative
\* integer congruent to it modulo 2^32 (TLC's integers are 32 bits wide);
\* Answer::encode gives back the same four bytes for it.
U32At(data, i) ==
    (IF At(data, i) >= 128 THEN At(data, i) - 256 ELSE At(data, i)) * 16777216
    + Shl32(At(data, i + 1), 16) + Shl32(At(data, i + 2), 8) + At(data, i + 3)

\* The while loop of parse_question_section, from the state before an iteration.
RECURSIVE QuestionLoop(_, _, _, _, _, _)
QuestionLoop(data, expected_questions_count, questions_count, current_index, questions, chk) ==
    LET Fields(label_sequence, i) ==
            IF ~ (InRange(data, i) /\ InRange(data, i + 3)) THEN Panic
            ELSE QuestionLoop(data, expected_questions_count, questions_count + 1, i + 4,
                              Append(questions,
                                     [name |-> label_sequence, type |-> U16At(data, i),
                                      class |-> U16At(data, i + 2)]),
                              chk)
        Record(n) ==
            IF n.kind # "ok" THEN n
            ELSE Fields(n.labels, AddWrapped(current_index, n.length))
    IN  IF ~ (current_index < Len(data) /\ questions_count < expected_questions_count)
        THEN [kind |-> "end", questions_count |-> questions_count,
              current_index |-> current_index, questions |-> questions]
        ELSE Record(ParseLabelSequence(data, current_index, chk))

\* Result: [kind |-> "ok", questions, current_index], Panic or Hang.
ParseQuestionSection(data, expected_questions_count, chk) ==
    LET After(l) ==
            IF l.kind # "end" THEN l
            ELSE IF l.questions_count # expected_questions_count THEN Panic
            ELSE [kind |-> "ok", questions |-> l.questions,
                  current_index |-> l.current_index]
    IN  After(QuestionLoop(data, expected_questions_count, 0, 0, <<>>, chk))

\* The while loop of parse_answer_section, from the state before an iteration.
RECURSIVE AnswerLoop(_, _, _, _, _, _)
AnswerLoop(data, expected_answers_count, answers_count, current_index, answer_vec, chk) ==
    LET Data(label_sequence, i, data_length) ==
            IF i + 10 + data_length > Len(data) THEN Panic
            ELSE AnswerLoop(data, expected_answers_count, answers_count + 1,
                            i + 10 + data_length,
                            Append(answer_vec,
                                   [name |-> label_sequence, type |-> U16At(data, i),
                                    class |-> U16At(data, i + 2),
                                    ttl |-> U32At(data, i + 4),
                                    data |-> SubSeq(data, i + 11, i + 10 + data_length)]),
                            chk)
        Fields(label_sequence, i) ==
            IF ~ (InRange(data, i) /\ InRange(data, i + 9)) THEN Panic
            ELSE Data(label_sequence, i, U16At(data, i + 8))
        Record(n) ==
            IF n.kind # "ok" THEN n
            ELSE Fields(n.labels, AddWrapped(current_index, n.length))
    IN  IF ~ (current_index < Len(data) /\ answers_count < expected_answers_count)
        THEN [kind |-> "end", answers_count |-> answers_count,
              current_index |-> current_index, answers |-> answer_vec]
        ELSE Record(ParseLabelSequence(data, current_index, chk))

\* parse_answer_section without its assert! on the count: a tolerant parser.
ParseAnswerSectionTolerant(data, section_start_index, expected_answers_count, chk) ==
    LET After(l) ==
            IF l.kind # "end" THEN l
            ELSE [kind |-> "ok", answers |-> l.answers, current_index |-> l.current_index]
    IN  After(AnswerLoop(data, expected_answers_count, 0, section_start_index, <<>>, chk))

\* Result: [kind |-> "ok", answers, current_index], Panic or Hang.
ParseAnswerSection(data, section_start_index, expected_answers_count, chk) ==
    LET After(l) ==
            IF l.kind # "end" THEN l
            ELSE IF l.answers_count # expected_answers_count THEN Panic
            ELSE [kind |-> "ok", answers |-> l.answers, current_index |-> l.current_index]
    IN  After(AnswerLoop(data, expected_answers_count, 0, section_start_index, <<>>, chk))

\* Result: [kind |-> "ok", questions, answers, question_section_end_index], Panic or Hang.
ParseQuestionsAndAnswers(data, header, chk) ==
    LET Both(qd, an) ==
            IF an.kind # "ok" THEN an
            ELSE [kind |-> "ok", questions |-> qd.questions, answers |-> an.answers,
                  question_section_end_index |-> qd.current_index]
        Answers(qd) ==
            IF qd.kind # "ok" THEN qd
            ELSE Both(qd, ParseAnswerSection(data, qd.current_index, header.an_count, chk))
    IN  Answers(ParseQuestionSection(data, header.qd_count, chk))

\* Message::parse_from on the data followed by sixteen zero bytes.
MessageParseFromPadded(data, chk) ==
    LET padded == data \o [i \in 1..16 |-> 0]
        Built(header, qa) ==
            IF qa.kind # "ok" THEN qa
            ELSE [kind |-> "ok",
                  msg |-> MessageNew(header, qa.questions, qa.answers),
                  question_section_end_index |-> qa.question_section_end_index]
    IN  Built(HeaderParseFrom(SubSeq(padded, 1, HeaderSize)).h,
              ParseQuestionsAndAnswers(SubSeq(padded, HeaderSize + 1, Len(padded)),
                                       HeaderParseFrom(SubSeq(padded, 1, HeaderSize)).h,
                                       chk))

\* Message::parse_from.  Result: [kind |-> "ok", msg, question_section_end_index],
\* Panic or Hang.
MessageParseFrom(data, chk) ==
    LET Built(header, qa) ==
            IF qa.kind # "ok" THEN qa
            ELSE [kind |-> "ok",
                  msg |-> MessageNew(header, qa.questions, qa.answers),
                  question_section_end_index |-> qa.question_section_end_index]
        Sections(header) ==
            IF ~ header.ok THEN Panic
            ELSE Built(header.h,
                       ParseQuestionsAndAnswers(SubSeq(data, HeaderSize + 1, Len(data)),
                                                header.h, chk))
    IN  IF Len(data) < HeaderSize THEN Panic
        ELSE Sections(HeaderParseFrom(SubSeq(data, 1, HeaderSize)))

(***************************************************************************)
(* The inline parser of src/dns.rs, the module main.rs uses                *)
(***************************************************************************)
\* offset_index of a pointer in the question section: the 14-bit offset minus
\* 12 on u16.
InlineQuestionPointer(control_byte, next_byte, chk) ==
    LET wide == BitOr(Shl16(BitAnd(control_byte, 63), 8), next_byte)
    IN  [trap |-> wide < HeaderSize /\ chk, index |-> (wide - HeaderSize) % 65536]

\* offset_index of a pointer in the answer section: `as` and `-` bind tighter
\* than `|`, so 12 is subtracted from the second byte alone, on u16, and the
\* result is or-ed with the shifted first byte.
InlineAnswerPointer(control_byte, next_byte, chk) ==
    [trap |-> next_byte < HeaderSize /\ chk,
     index |-> BitOr(Shl16(BitAnd(control_byte, 63), 8), (next_byte - HeaderSize) % 65536)]

\* The inner while loop, `while data[index] != 0`, of either section.  Its
\* control depends on index alone: visited is the set of indices it has been at.
\* Result: [kind |-> "end", index (of the terminator), labels], Panic or Hang.
RECURSIVE InlineNameLoop(_, _, _, _, _, _)
InlineNameLoop(data, index, labels, visited, in_answers, chk) ==
    IF ~ InRange(data, index) THEN Panic
    ELSE IF index \in visited THEN Hang
    ELSE IF At(data, index) = 0
    THEN [kind |-> "end", index |-> index, labels |-> labels]
    ELSE IF BitAnd(At(data, index), 192) = 192
    THEN IF ~ InRange(data, index + 1) THEN Panic
         ELSE LET Jump(offset_index) ==
                      IF offset_index.trap THEN Panic
                      ELSE InlineNameLoop(data, offset_index.index, labels,
                                          visited \cup {index}, in_answers, chk)
              IN  Jump(IF in_answers
                       THEN InlineAnswerPointer(At(data, index), At(data, index + 1), chk)
                       ELSE InlineQuestionPointer(At(data, index), At(data, index + 1), chk))
    ELSE IF ~ InRange(data, index + At(data, index)) THEN Panic
    ELSE LET content == SubSeq(data, index + 2, index + At(data, index) + 1)
         IN  IF ~ Utf8Valid(content) THEN Panic
             ELSE InlineNameLoop(data, index + At(data, index) + 1,
                                 Append(labels, content), visited \cup {index},
                                 in_answers, chk)

\* The loop over the questions, from the state before an iteration.
\* Result: [kind |-> "ok", questions, index], Panic or Hang.
RECURSIVE InlineQuestionLoop(_, _, _, _, _)
InlineQuestionLoop(data, expected_questions_count, index, questions, chk) ==
    LET Fields(labels, i) ==
            IF ~ (InRange(data, i) /\ InRange(data, i + 3)) THEN Panic
            ELSE InlineQuestionLoop(data, expected_questions_count, i + 4,
                                    Append(questions,
                                           [name |-> labels, type |-> U16At(data, i),
                                            class |-> U16At(data, i + 2)]),
                                    chk)
        Record(n) == IF n.kind # "end" THEN n ELSE Fields(n.labels, n.index + 1)
    IN  IF ~ (Len(questions) < expected_questions_count)
        THEN [kind |-> "ok", questions |-> questions, index |-> index]
        ELSE Record(InlineNameLoop(data, index, <<>>, {}, FALSE, chk))

\* The loop over the answers, from the state before an iteration.
\* Result: [kind |-> "ok", answers, index], Panic or Hang.
RECURSIVE InlineAnswerLoop(_, _, _, _, _)
InlineAnswerLoop(data, expected_answers_count, index, answer_vec, chk) ==
    LET Data(labels, i, length) ==
            IF i + 10 + length > Len(data) THEN Panic
            ELSE InlineAnswerLoop(data, expected_answers_count, i + 10 + length,
                                  Append(answer_vec,
                                         [name |-> labels, type |-> U16At(data, i),
                                          class |-> U16At(data, i + 2),
                                          ttl |-> U32At(data, i + 4),
                                          data |-> SubSeq(data, i + 11, i + 10 + length)]),
                                  chk)
        Fields(labels, i) ==
            IF ~ (InRange(data, i) /\ InRange(data, i + 9)) THEN Panic
            ELSE Data(labels, i, U16At(data, i + 8))
        Record(n) == IF n.kind # "end" THEN n ELSE Fields(n.labels, n.index + 1)
    IN  IF ~ (Len(answer_vec) < expected_answers_count)
        THEN [kind |-> "ok", answers |-> answer_vec, index |-> index]
        ELSE Record(InlineNameLoop(data, index, <<>>, {}, TRUE, chk))

\* Message::parse_questions_and_answers of src/dns.rs.
\* Result: [kind |-> "ok", questions, answers], Panic or Hang.
InlineParseQuestionsAndAnswers(data, header, chk) ==
    LET Both(qd, an) ==
            IF an.kind # "ok" THEN an
            ELSE [kind |-> "ok", questions |-> qd.questions, answers |-> an.answers]
        Answers(qd) ==
            IF qd.kind # "ok" THEN qd
            ELSE Both(qd, InlineAnswerLoop(data, header.an_count, qd.index, <<>>, chk))
    IN  Answers(InlineQuestionLoop(data, header.qd_count, 0, <<>>, chk))

\* Message::parse_from of src/dns.rs.  Result: [kind |-> "ok", msg], Panic or Hang.
InlineMessageParseFrom(data, chk) ==
    LET Built(header, qa) ==
            IF qa.kind # "ok" THEN qa
            ELSE [kind |-> "ok", msg |-> MessageNew(header, qa.questions, qa.answers)]
        Sections(header) ==
            IF ~ header.ok THEN Panic
            ELSE Built(header.h,
                       InlineParseQuestionsAndAnswers(SubSeq(data, HeaderSize + 1, Len(data)),
                                                      header.h, chk))
    IN  IF Len(data) < HeaderSize THEN Panic
        ELSE Sections(HeaderParseFrom(SubSeq(data, 1, HeaderSize)))

(***************************************************************************)
(* Headers built by the server (src/server/mod.rs)                         *)
(***************************************************************************)
\* The header of the response, DnsServer::work.
\* The response header without the match on the opcode: rcode stays NoError.
ResponseHeaderNoError(request_header, answers_len) ==
    [HeaderDefault EXCEPT
        !.id = request_header.id,
        !.qr = TRUE,
        !.opcode = request_header.opcode,
        !.rd = request_header.rd,
        !.qd_count = request_header.qd_count,
        !.an_count = answers_len % 65536]

ResponseHeader(request_header, answers_len) ==
    [HeaderDefault EXCEPT
        !.id = request_header.id,
        !.qr = TRUE,
        !.opcode = request_header.opcode,
        !.rd = request_header.rd,
        !.rcode = IF request_header.opcode = Plain("Query")
                  THEN Plain("NoError") ELSE Plain("NotImplemented"),
        !.qd_count = request_header.qd_count,
        !.an_count = answers_len % 65536]

\* fwd_header of ForwardingDnsResolver::resolve.
ForwardHeader(header) ==
    [HeaderDefault EXCEPT
        !.id = header.id,
        !.qr = FALSE,
        !.opcode = header.opcode,
        !.rd = header.rd,
        !.qd_count = 1]

(***************************************************************************)
(* Header codec harness: the conversions and Header::parse_from / encode   *)
(* applied to inputs drawn from HeaderArgs and CodeArgs.                   *)
(***************************************************************************)
SampleIds == {0, 4660, 65535}
SampleCounts == {<<0, 0>>, <<0, 1>>, <<1, 2>>}
SampleFlagBytes == {0, 1, 129, 120, 255}
SampleCodeBytes == {0, 1, 4, 15, 16, 112, 128, 143, 255}

HeaderBytes(id, b2, b3, qd, an) ==
    U16Be(id) \o <<b2, b3>> \o U16Be(qd) \o U16Be(an) \o <<0, 0, 0, 0>>

HeaderArgs ==
    {[kind |-> "header", data |-> HeaderBytes(id, b2, b3, c[1], c[2])] :
        id \in SampleIds, b2 \in Byte, b3 \in SampleCodeBytes, c \in {<<0, 1>>}}
    \cup
    {[kind |-> "header", data |-> HeaderBytes(id, b2, b3, c[1], c[2])] :
        id \in {4660}, b2 \in SampleFlagBytes, b3 \in Byte, c \in SampleCounts}

CodeArgs == {[kind |-> "code", value |-> v] : v \in Byte}

NoRes == [none |-> TRUE]

\* The server's variables in the codec harnesses, where the server does not run.
SrvIdle ==
    /\ mode = "none" /\ pc = "off" /\ buf = <<>> /\ received = 0 /\ source = "none"
    /\ inbound = [kind |-> "none", bytes |-> <<>>]
    /\ request = NoRes /\ qi = 0 /\ answers = <<>> /\ upstream = <<>> /\ sent = <<>>

HeaderInit ==
    /\ SrvIdle
    /\ overflow_checks = FALSE
    /\ step = "init"
    /\ arg \in HeaderArgs \cup CodeArgs
    /\ res = NoRes

\* Header::parse_from on the input bytes.
HeaderParse ==
    /\ step = "init" /\ arg.kind = "header"
    /\ res' = [parsed |-> HeaderParseFrom(arg.data)]
    /\ step' = "parsed"
    /\ UNCHANGED <<overflow_checks, arg, srv>>

\* Header::encode on the parsed header.
HeaderReencode ==
    /\ step = "parsed" /\ res.parsed.ok
    /\ res' = [parsed |-> res.parsed, encoded |-> HeaderEncode(res.parsed.h)]
    /\ step' = "encoded"
    /\ UNCHANGED <<overflow_checks, arg, srv>>

\* Header::parse_from on the re-encoded bytes.
HeaderReparse ==
    /\ step = "encoded"
    /\ res' = [parsed |-> res.parsed, encoded |-> res.encoded,
               reparsed |-> HeaderParseFrom(res.encoded)]
    /\ step' = "reparsed"
    /\ UNCHANGED <<overflow_checks, arg, srv>>

\* The two headers the server derives from a parsed request header.
HeaderDerive ==
    /\ step = "parsed" /\ res.parsed.ok
    /\ \E n \in 0..2 :
          res' = [parsed |-> res.parsed,
                  response |-> ResponseHeader(res.parsed.h, n),
                  forward |-> ForwardHeader(res.parsed.h)]
    /\ step' = "derived"
    /\ UNCHANGED <<overflow_checks, arg, srv>>

\* OpCode::try_from and RCode::try_from on the input byte.
CodeConvert ==
    /\ step = "init" /\ arg.kind = "code"
    /\ res' = [opcode |-> OpCodeTryFrom(arg.value), rcode |-> RCodeTryFrom(arg.value)]
    /\ step' = "converted"
    /\ UNCHANGED <<overflow_checks, arg, srv>>

\* u8::from on the converted codes.
CodeConvertBack ==
    /\ step = "converted" /\ res.opcode.ok /\ res.rcode.ok
    /\ res' = [opcode |-> res.opcode, rcode |-> res.rcode,
               opcode_u8 |-> OpCodeToU8(res.opcode.code),
               rcode_u8 |-> RCodeToU8(res.rcode.code)]
    /\ step' = "back"
    /\ UNCHANGED <<overflow_checks, arg, srv>>

HeaderNext ==
    \/ HeaderParse
    \/ HeaderReencode
    \/ HeaderReparse
    \/ HeaderDerive
    \/ CodeConvert
    \/ CodeConvertBack

SpecHeader == HeaderInit /\ [][HeaderNext]_vars

(***************************************************************************)
(* Claims on the header codec                                              *)
(***************************************************************************)
B2N(b) == IF b THEN 1 ELSE 0

\* The layout of section 4.1 of the specification, field by field.
LayoutBytes(h) ==
    <<h.id \div 256, h.id % 256,
      128 * B2N(h.qr) + 8 * OpCodeToU8(h.opcode) + 4 * B2N(h.aa) + 2 * B2N(h.tc) + B2N(h.rd),
      128 * B2N(h.ra) + 16 * h.z + RCodeToU8(h.rcode),
      h.qd_count \div 256, h.qd_count % 256, h.an_count \div 256, h.an_count % 256,
      h.ns_count \div 256, h.ns_count % 256, h.ar_count \div 256, h.ar_count % 256>>

\* C4: Header.encode lays every Header out as id, qr/opcode/aa/tc/rd,
\* ra (bit 7)/z (bits 6-4)/rcode (bits 3-0), then the four counts, big-endian.
C4_EncodeLayout ==
    step = "encoded" => res.encoded = LayoutBytes(res.parsed.h)

\* C5: parse_from(encode(h)) = h in every field, and encode(parse_from(b)) = b
\* for every 12-byte b whose reserved z bits are 0.
C5_HeaderInverse ==
    /\ step = "reparsed" => res.reparsed.ok /\ res.reparsed.h = res.parsed.h
    /\ (step = "encoded" /\ BitAnd(arg.data[4], 112) = 0) => res.encoded = arg.data

\* C6: a byte converts to OpCode / RCode exactly when it is 0..15, to the
\* Unassigned variant for 3, 7..15 (OpCode) and 6..15 (RCode), and back to the
\* same number; Header.parse_from never takes the failure path, and the parsed
\* header and the two headers the server derives from it hold codes 0..15.
C6_FourBitCodes ==
    /\ step = "converted" =>
          /\ res.opcode.ok <=> arg.value \in 0..15
          /\ res.rcode.ok <=> arg.value \in 0..15
          /\ res.opcode.ok =>
                (res.opcode.code.tag = "Unassigned" <=> arg.value \in {3} \cup 7..15)
          /\ res.rcode.ok =>
                (res.rcode.code.tag = "Unassigned" <=> arg.value \in 6..15)
    /\ step = "back" => res.opcode_u8 = arg.value /\ res.rcode_u8 = arg.value
    /\ step \in {"parsed", "encoded", "reparsed", "derived"} =>
          /\ res.parsed.ok
          /\ OpCodeToU8(res.parsed.h.opcode) \in 0..15
          /\ RCodeToU8(res.parsed.h.rcode) \in 0..15
    /\ step = "derived" =>
          /\ OpCodeToU8(res.response.opcode) \in 0..15
          /\ RCodeToU8(res.response.rcode) \in 0..15
          /\ OpCodeToU8(res.forward.opcode) \in 0..15
          /\ RCodeToU8(res.forward.rcode) \in 0..15

\* C6 witness: the byte 255 was handed to OpCode::try_from and refused.
C6_Witness_Refused == step = "converted" /\ arg.value = 255 /\ ~ res.opcode.ok

(***************************************************************************)
(* Message codec harness: Message::encode, Message::parse_from and         *)
(* parse_label_sequence applied to inputs drawn from bounded sets.         *)
(***************************************************************************)
MaxQuestions == 2
MaxAnswers == 1
MaxPrefix == 1
MaxCount == 2

LabelOfLen(n) == [i \in 1..n |-> 97]
LabelA == <<97>>
LabelBc == <<98, 99>>
PlainLabels == {LabelA, LabelBc}

RECURSIVE SeqsUpTo(_, _)
SeqsUpTo(S, n) ==
    IF n = 0 THEN {<<>>}
    ELSE LET shorter == SeqsUpTo(S, n - 1)
         IN  shorter \cup {Append(q, x) : q \in {r \in shorter : Len(r) = n - 1}, x \in S}

Question(name, type, class) == [name |-> name, type |-> type, class |-> class]
Answer(name, type, class, ttl, data) ==
    [name |-> name, type |-> type, class |-> class, ttl |-> ttl, data |-> data]

\* Names of the round-trip inputs: labels of every length class the Label type
\* admits (0, 1..191, 192..255).
RoundTripNames ==
    {<<>>, <<LabelA>>, <<LabelBc, LabelA>>, <<LabelOfLen(191), LabelA>>,
     <<<<>>, LabelA>>, <<LabelOfLen(192)>>}

RoundTripQuestions ==
    {Question(n, 1, 1) : n \in RoundTripNames} \cup {Question(<<LabelBc>>, 258, 772)}

RoundTripAnswers ==
    {Answer(<<LabelA>>, 1, 1, 60, <<8, 8, 8, 8>>),
     Answer(<<LabelBc, LabelA>>, 5, 1, 16909060, <<>>),
     Answer(<<>>, 258, 772, 0, <<0, 0, 0, 0, 0, 0>>)}

\* Headers as parse_from yields them (z repeats the low three bits of rcode).
RoundTripHeaders ==
    {HeaderParseFrom(HeaderBytes(4660, b[1], b[2], 0, 0)).h :
        b \in {<<0, 0>>, <<129, 0>>, <<1, 128>>, <<169, 131>>}}

MessageArgs ==
    {[kind |-> "message",
      msg |-> MessageNew([h EXCEPT !.qd_count = Len(qs), !.an_count = Len(as)], qs, as)] :
        h \in RoundTripHeaders,
        qs \in SeqsUpTo(RoundTripQuestions, MaxQuestions),
        as \in SeqsUpTo(RoundTripAnswers, MaxAnswers)}

\* Buffers of the strict-count inputs: the encoding of a well-formed message
\* whose header declares qd and an, with the last cut bytes removed.
WellFormedQuestions == {Question(<<LabelBc, LabelA>>, 1, 1), Question(<<LabelA>>, 258, 772)}
WellFormedAnswers ==
    {Answer(<<LabelBc, LabelA>>, 1, 1, 60, <<8, 8, 8, 8>>),
     Answer(<<>>, 5, 1, 16909060, <<1, 2>>)}
SampleCuts == {0, 1, 5, 11}

BufferArgs ==
    {LET bytes == MessageEncode(MessageNew([HeaderDefault EXCEPT !.id = 4660,
                                              !.qd_count = qd, !.an_count = an],
                                            qs, as)).bytes
     IN  [kind |-> "buffer", questions |-> qs, answers |-> as, cut |-> cut,
          qd |-> qd, an |-> an,
          data |-> SubSeq(bytes, 1, IF cut > Len(bytes) THEN 0 ELSE Len(bytes) - cut)] :
        qs \in SeqsUpTo(WellFormedQuestions, MaxQuestions),
        as \in SeqsUpTo(WellFormedAnswers, MaxAnswers),
        qd \in 0..(MaxCount + 1), an \in 0..MaxCount, cut \in SampleCuts}

\* Buffers whose records leave the data: a header declaring qd questions and an
\* answers, then body.  lost names what is missing ("name": the name's
\* terminator, label content, a pointer's second byte or its target; "fixed":
\* part of type, class, ttl or length; "data": part of the answer's data;
\* "none": nothing), rdata the data field of the last answer when nothing is.
FixedA == <<0, 1, 0, 1, 0, 0, 0, 60>>
PayloadArgs ==
    {[kind |-> "payload", lost |-> c[1], qd |-> c[2], an |-> c[3], rdata |-> c[5],
      data |-> HeaderBytes(4660, 0, 0, c[2], c[3]) \o c[4]] :
        c \in {<<"name", 1, 0, <<5, 97, 97>>, <<>> >>,
               <<"name", 1, 0, <<1, 97, 192>>, <<>> >>,
               <<"name", 1, 0, <<192, 200, 0, 1, 0, 1>>, <<>> >>,
               <<"name", 1, 0, <<1, 97>>, <<>> >>,
               <<"name", 0, 1, <<2, 98>>, <<>> >>,
               <<"name", 0, 1, <<1, 97, 255>>, <<>> >>,
               <<"name", 0, 1, <<1, 97, 192, 30>> \o FixedA \o <<0, 0>>, <<>> >>,
               <<"fixed", 1, 0, <<1, 97, 0>>, <<>> >>,
               <<"fixed", 1, 0, <<1, 97, 0, 0>>, <<>> >>,
               <<"fixed", 1, 0, <<1, 97, 0, 0, 1, 0>>, <<>> >>,
               <<"fixed", 0, 1, <<0, 0, 1, 0>>, <<>> >>,
               <<"fixed", 0, 1, <<0, 0, 1, 0, 1, 0, 0, 0>>, <<>> >>,
               <<"fixed", 0, 1, <<0>> \o FixedA \o <<0>>, <<>> >>,
               <<"data", 0, 1, <<0>> \o FixedA \o <<0, 4, 8, 8, 8>>, <<>> >>,
               <<"data", 0, 1, <<0>> \o FixedA \o <<1, 0, 8, 8, 8, 8>>, <<>> >>,
               <<"data", 0, 1, <<0>> \o FixedA \o <<0, 1>>, <<>> >>,
               <<"none", 0, 1, <<0>> \o FixedA \o <<0, 4, 8, 8, 8, 8>>, <<8, 8, 8, 8>> >>,
               <<"none", 0, 1, <<0>> \o FixedA \o <<0, 2, 8, 8, 9, 9>>, <<8, 8>> >>,
               <<"none", 0, 1, <<0>> \o FixedA \o <<0, 0>>, <<>> >>,
               <<"none", 1, 1, <<1, 97, 0, 0, 1, 0, 1, 192, 12>> \o FixedA
                               \o <<0, 3, 1, 2, 3>>, <<1, 2, 3>> >>}}

\* Names that use compression pointers, inside a section payload (the message
\* without its header).  data is the payload, start the index of the name,
\* expect the logical name, wire its bytes from start to its last pointer.
Ptr(section_index) ==
    LET off == section_index + HeaderSize
    IN  <<192 + off \div 256, off % 256>>

WirePrefix(labels) == Flatten([i \in 1..Len(labels) |-> LabelEncode(labels[i]).bytes])

TargetNames == {<<LabelA>>, <<LabelBc, LabelA>>, <<LabelOfLen(191)>>}
Prefixes == SeqsUpTo(PlainLabels, MaxPrefix)
Filler == <<7, 7, 7>>

\* a name at start that ends in a pointer to an uncompressed name stored before it
BackwardArgs ==
    {LET target == SubSeq(Filler, 1, gap)
         before == target \o LabelSequenceEncode(t).bytes \o SubSeq(Filler, 1, gap)
     IN  [kind |-> "name", shape |-> "backward", expect |-> p \o t,
          start |-> Len(before), wire |-> WirePrefix(p) \o Ptr(gap),
          data |-> before \o WirePrefix(p) \o Ptr(gap) \o <<0, 1, 0, 1>>] :
        t \in TargetNames, p \in Prefixes, gap \in {0, 3}}

\* a name at start that ends in a pointer to an uncompressed name stored after it
ForwardArgs ==
    {LET before == SubSeq(Filler, 1, gap)
         name == WirePrefix(p) \o Ptr(gap + Len(WirePrefix(p)) + 6)
     IN  [kind |-> "name", shape |-> "forward", expect |-> p \o t,
          start |-> gap, wire |-> name,
          data |-> before \o name \o <<0, 1, 0, 1>> \o LabelSequenceEncode(t).bytes] :
        t \in TargetNames, p \in Prefixes, gap \in {0, 3}}

\* a name at start that ends in a pointer to a name which itself ends in a pointer
ChainArgs ==
    {LET first == LabelSequenceEncode(t).bytes \o <<0, 1, 0, 1>>
         second == WirePrefix(p2) \o Ptr(0) \o <<0, 1, 0, 1>>
     IN  [kind |-> "name", shape |-> "chain", expect |-> p3 \o p2 \o t,
          start |-> Len(first) + Len(second), wire |-> WirePrefix(p3) \o Ptr(Len(first)),
          data |-> first \o second \o WirePrefix(p3) \o Ptr(Len(first)) \o <<0, 1, 0, 1>>] :
        t \in TargetNames, p2 \in Prefixes \ {<<>>}, p3 \in Prefixes}

\* a name at start without a pointer
PlainArgs ==
    {LET before == SubSeq(Filler, 1, gap)
     IN  [kind |-> "name", shape |-> "plain", expect |-> t,
          start |-> gap, wire |-> LabelSequenceEncode(t).bytes,
          data |-> before \o LabelSequenceEncode(t).bytes \o <<0, 1, 0, 1>>] :
        t \in TargetNames \cup {<<>>, <<LabelOfLen(64)>>, <<LabelOfLen(128), LabelA>>,
                                  <<LabelOfLen(191)>>},
        gap \in {0, 3}}

\* a name at start that ends in a pointer to a name stored more than 255 bytes
\* further (the pointer's first byte carries offset bits)
FarArgs ==
    {LET name == WirePrefix(p) \o Ptr(250)
     IN  [kind |-> "name", shape |-> "forward", expect |-> p \o t,
          start |-> 0, wire |-> name,
          data |-> name \o <<0, 1, 0, 1>> \o [i \in 1..(246 - Len(name)) |-> 7]
                   \o LabelSequenceEncode(t).bytes] :
        t \in {<<LabelBc>>}, p \in Prefixes \ {<<>>}}

\* names whose pointers lead back to a position already read
CycleArgs ==
    {[kind |-> "name", shape |-> "cycle", expect |-> <<>>, start |-> c[1],
      wire |-> <<>>, data |-> c[2]] :
        c \in {<<0, Ptr(0) \o <<0, 1, 0, 1>> >>,               \* a pointer to itself
               <<3, Filler \o Ptr(3) \o <<0, 1, 0, 1>> >>,
               <<0, Ptr(2) \o Ptr(0)>>,                          \* two pointers
               <<4, LabelEncode(LabelA).bytes \o Ptr(0) \o Ptr(0)>>, \* a label and a pointer
               <<0, LabelEncode(LabelBc).bytes \o Ptr(5) \o Ptr(3)>>}}

\* names that leave the payload: label content, a pointer's second byte, a jump
\* target or the terminator is past the end; and a label that is not UTF-8
TruncatedArgs ==
    {[kind |-> "name", shape |-> "truncated", expect |-> <<>>, start |-> 0,
      wire |-> <<>>, data |-> d] :
        d \in {<<5, 97, 97>>, <<1, 97, 192>>, <<192, 200>>, <<1, 97>>, <<255, 255>>,
               <<1, 255, 0>>, <<>>}}

\* names with a pointer whose offset is below 12: it points into the header
HeaderPointerArgs ==
    {[kind |-> "name", shape |-> "header", expect |-> <<>>, start |-> 3,
      wire |-> <<>>, data |-> LabelSequenceEncode(<<LabelA>>).bytes \o <<192, off>>
                              \o <<0, 1, 0, 1>>] :
        off \in {0, 5, 11}}

NameArgs ==
    BackwardArgs \cup ForwardArgs \cup ChainArgs \cup PlainArgs \cup FarArgs
    \cup CycleArgs \cup TruncatedArgs \cup HeaderPointerArgs

\* Label sequences handed to LabelSequence::encode: labels of every length
\* class, 256 bytes included.
EncodeArgs ==
    {[kind |-> "labels", labels |-> n] :
        n \in RoundTripNames
              \cup {<<LabelOfLen(63), LabelBc>>, <<LabelA, LabelOfLen(255)>>,
                    <<LabelBc, <<>>, LabelA>>, <<LabelOfLen(256)>>}}

CodecInit ==
    /\ SrvIdle
    /\ overflow_checks \in BOOLEAN
    /\ step = "init"
    /\ arg \in MessageArgs \cup BufferArgs \cup PayloadArgs \cup NameArgs \cup EncodeArgs
    /\ res = NoRes

\* Message::encode on the input message.
MsgEncode ==
    /\ step = "init" /\ arg.kind = "message"
    /\ res' = [encoded |-> MessageEncode(arg.msg)]
    /\ step' = "encoded"
    /\ UNCHANGED <<overflow_checks, arg, srv>>

\* Message::parse_from on the encoded message.
MsgParse ==
    /\ step = "encoded" /\ res.encoded.ok
    /\ res' = [encoded |-> res.encoded,
               parsed |-> MessageParseFrom(res.encoded.bytes, overflow_checks)]
    /\ step' = "parsed"
    /\ UNCHANGED <<overflow_checks, arg, srv>>

\* Message::parse_from on the input buffer.
BufParse ==
    /\ step = "init" /\ arg.kind \in {"buffer", "payload"}
    /\ res' = [parsed |-> MessageParseFrom(arg.data, overflow_checks)]
    /\ step' = "parsed"
    /\ UNCHANGED <<overflow_checks, arg, srv>>

\* Both Message::parse_from, of src/dns.rs and of src/server/dns.rs, on the
\* input buffer.
BufParseBoth ==
    /\ step = "init" /\ arg.kind \in {"buffer", "payload"}
    /\ res' = [inline |-> InlineMessageParseFrom(arg.data, overflow_checks),
               parsed |-> MessageParseFrom(arg.data, overflow_checks)]
    /\ step' = "compared"
    /\ UNCHANGED <<overflow_checks, arg, srv>>

\* Message::parse_label_sequence on the input payload at the input index.
NameParse ==
    /\ step = "init" /\ arg.kind = "name"
    /\ res' = [name |-> ParseLabelSequence(arg.data, arg.start, overflow_checks),
               walk |-> LabelLoop(arg.data, arg.start, <<>>, 0, {}, overflow_checks)]
    /\ step' = "named"
    /\ UNCHANGED <<overflow_checks, arg, srv>>

\* LabelSequence::encode on the decoded name.
NameReencode ==
    /\ step = "named" /\ res.name.kind = "ok"
    /\ res' = [name |-> res.name, reencoded |-> LabelSequenceEncode(res.name.labels)]
    /\ step' = "renamed"
    /\ UNCHANGED <<overflow_checks, arg, srv>>

\* The caller of parse_label_sequence: the cursor is advanced by the reported
\* length and the 16-bit type is read there.
NameResume ==
    /\ step = "named" /\ res.name.kind = "ok"
    /\ LET Read(current_index) ==
               [name |-> res.name, current_index |-> current_index,
                type |-> IF InRange(arg.data, current_index)
                            /\ InRange(arg.data, current_index + 1)
                         THEN [kind |-> "ok", v |-> U16At(arg.data, current_index)]
                         ELSE Panic]
       IN  res' = Read(AddWrapped(arg.start, res.name.length))
    /\ step' = "resumed"
    /\ UNCHANGED <<overflow_checks, arg, srv>>

\* LabelSequence::encode on the input labels, and parse_label_sequence on its
\* output.
NameEncode ==
    /\ step = "init" /\ arg.kind = "labels"
    /\ LET Decode(encoded) ==
               [encoded |-> encoded,
                decoded |-> IF encoded.ok
                            THEN ParseLabelSequence(encoded.bytes, 0, overflow_checks)
                            ELSE Panic]
       IN  res' = Decode(LabelSequenceEncode(arg.labels))
    /\ step' = "name_encoded"
    /\ UNCHANGED <<overflow_checks, arg, srv>>

CodecNext ==
    \/ BufParseBoth
    \/ NameResume
    \/ NameEncode
    \/ MsgEncode
    \/ MsgParse
    \/ BufParse
    \/ NameParse
    \/ NameReencode

SpecCodec == CodecInit /\ [][CodecNext]_vars

(***************************************************************************)
(* Claims on the message codec                                             *)
(***************************************************************************)
\* C1: for every Message whose counts match its sections and whose labels are
\* 0..255 bytes long, parse_from(encode(m)) returns m: the same header fields,
\* questions and answers.
C1_RoundTrip ==
    (step = "parsed" /\ arg.kind = "message") =>
        res.parsed.kind = "ok" /\ res.parsed.msg = arg.msg

\* The shapes of the well-formed names that use pointers.
PointerShapes == {"backward", "forward", "chain"}

\* C2: decoding a name that uses a compression pointer yields the labels read
\* before the pointer followed by the labels of the name at the pointer's
\* target, and re-encoding the decoded name gives the fully expanded bytes,
\* not the compressed ones.
C2_CompressionExpansion ==
    /\ (step \in {"named", "renamed"} /\ arg.kind = "name"
        /\ arg.shape \in PointerShapes) =>
          res.name.kind = "ok" /\ res.name.labels = arg.expect
    /\ (step = "renamed" /\ arg.shape \in PointerShapes) =>
          /\ res.reencoded.ok
          /\ res.reencoded.bytes = WirePrefix(arg.expect) \o <<0>>
          /\ res.reencoded.bytes # arg.wire

\* C3: parse_from never returns a truncated section.  Whenever it returns, the
\* questions are as many as the qd_count and the answers as many as the
\* an_count the buffer declares; a buffer that ends before the declared number
\* of records was read makes it fail; and the answers are read from where the
\* question section ended.
C3_StrictCounts ==
    (step = "parsed" /\ arg.kind = "buffer") =>
        LET nq == Len(arg.questions)
            na == Len(arg.answers)
            qbytes == Flatten([i \in 1..nq |-> QuestionEncode(arg.questions[i]).bytes])
        IN  /\ res.parsed.kind = "ok" =>
                /\ Len(arg.data) >= HeaderSize
                /\ res.parsed.msg.header.qd_count = U16FromBe(arg.data[5], arg.data[6])
                /\ res.parsed.msg.header.an_count = U16FromBe(arg.data[7], arg.data[8])
                /\ Len(res.parsed.msg.questions) = res.parsed.msg.header.qd_count
                /\ Len(res.parsed.msg.answers) = res.parsed.msg.header.an_count
            /\ (arg.cut = 0 /\ arg.qd = nq /\ arg.an > na) => res.parsed.kind = "panic"
            /\ (arg.cut = 0 /\ arg.qd > nq /\ na = 0) => res.parsed.kind = "panic"
            /\ (arg.cut = 0 /\ arg.qd = nq /\ arg.an <= na) =>
                /\ res.parsed.kind = "ok"
                /\ res.parsed.msg.questions = arg.questions
                /\ res.parsed.question_section_end_index = Len(qbytes)
                /\ res.parsed.msg.answers = SubSeq(arg.answers, 1, arg.an)

\* C3 witness: a buffer with all its questions and fewer answers than declared
\* was refused.
C3_Witness_FewerAnswers ==
    /\ step = "parsed" /\ arg.kind = "buffer" /\ arg.cut = 0
    /\ arg.qd = Len(arg.questions) /\ arg.qd = 2
    /\ Len(arg.answers) = 1 /\ arg.an = 2
    /\ res.parsed.kind = "panic"

(***************************************************************************)
(* The resolvers and the server loop (src/server/mod.rs)                   *)
(***************************************************************************)
BufSize == 512
MaxDatagrams == 2

Zeros(n) == [i \in 1..n |-> 0]

\* UdpSocket::recv_from into b: the datagram's bytes (as many as fit) replace
\* the first bytes of b, the rest of b keeps what it held.
RecvInto(b, d) ==
    LET n == IF Len(d) < Len(b) THEN Len(d) ELSE Len(b)
    IN  SubSeq(d, 1, n) \o SubSeq(b, n + 1, Len(b))

\* DummyDnsResolver::resolve with a wrong record: the name of the first question
\* in every answer.
DummyResolveFirstName(header, questions) ==
    [i \in 1..Len(questions) |-> Answer(questions[1].name, 1, 1, 60, <<8, 8, 8, 8>>)]

\* The dummy resolver answering requests of opcode Query only.
DummyResolveQueryOnly(header, questions) ==
    IF OpCodeToU8(header.opcode) # 0 THEN <<>>
    ELSE [i \in 1..Len(questions) |-> Answer(questions[i].name, 1, 1, 60, <<8, 8, 8, 8>>)]

\* DummyDnsResolver::resolve.
DummyResolve(header, questions) ==
    [i \in 1..Len(questions) |-> Answer(questions[i].name, 1, 1, 60, <<8, 8, 8, 8>>)]

\* Inbound datagrams.
QuestionBcA == Question(<<LabelBc, LabelA>>, 1, 1)
QuestionA == Question(<<LabelA>>, 28, 1)
\* a name of 255 bytes on the wire, its labels of at most 63 bytes
QuestionLong ==
    Question(<<LabelOfLen(63), LabelOfLen(63), LabelOfLen(63), LabelOfLen(61)>>, 1, 1)

Datagrams ==
    {\* one question, recursion desired
     HeaderBytes(4660, 1, 0, 1, 0) \o QuestionEncode(QuestionBcA).bytes,
     \* two questions, the second name "a" + pointer to the first name
     HeaderBytes(7, 0, 0, 2, 0) \o QuestionEncode(QuestionBcA).bytes
        \o LabelEncode(LabelA).bytes \o Ptr(0) \o <<0, 1, 0, 1>>,
     \* opcode IQUERY, recursion desired, one question
     HeaderBytes(9, 9, 0, 1, 0) \o QuestionEncode(QuestionA).bytes,
     \* no question
     HeaderBytes(5, 0, 0, 0, 0),
     \* a label that is not UTF-8
     HeaderBytes(6, 1, 0, 1, 0) \o <<1, 255, 0, 0, 1, 0, 1>>,
     \* a header that declares one question, and nothing after it
     HeaderBytes(8, 0, 0, 1, 0),
     \* one question with a name of 255 bytes: a datagram of 271 bytes
     HeaderBytes(10, 1, 0, 1, 0) \o QuestionEncode(QuestionLong).bytes}

Clients == {"client1", "client2"}

\* Replies of the upstream: the answer records a reply carries and its bytes.
AnswerFields(a) ==
    SubSeq(AnswerEncode(a).bytes, Len(LabelSequenceEncode(a.name).bytes) + 1,
           Len(AnswerEncode(a).bytes))

ReplyAnswer1 == Answer(<<LabelBc, LabelA>>, 1, 1, 300, <<1, 2, 3, 4>>)
ReplyAnswer2 == Answer(<<LabelA>>, 5, 1, 60, <<9>>)

UpstreamReplies ==
    {\* one answer, its name a pointer to the question's name
     [answers |-> <<ReplyAnswer1>>,
      bytes |-> HeaderBytes(4660, 129, 128, 1, 1) \o QuestionEncode(QuestionBcA).bytes
                \o Ptr(0) \o AnswerFields(ReplyAnswer1)],
     \* two answers
     [answers |-> <<ReplyAnswer2, ReplyAnswer1>>,
      bytes |-> HeaderBytes(4660, 129, 128, 1, 2) \o QuestionEncode(QuestionBcA).bytes
                \o AnswerEncode(ReplyAnswer2).bytes
                \o Ptr(0) \o AnswerFields(ReplyAnswer1)],
     \* no answer, rcode NameError
     [answers |-> <<>>,
      bytes |-> HeaderBytes(4660, 129, 131, 1, 0) \o QuestionEncode(QuestionBcA).bytes],
     \* malformed: the answer's name is a pointer into the header
     [answers |-> <<>>,
      bytes |-> HeaderBytes(4660, 129, 128, 1, 1) \o QuestionEncode(QuestionBcA).bytes
                \o <<192, 5>> \o AnswerFields(ReplyAnswer1)]}

ServerInit ==
    /\ overflow_checks \in BOOLEAN
    /\ step = "off" /\ arg = NoRes /\ res = NoRes
    /\ mode \in {"dummy", "forward"}
    /\ pc = "listen"
    /\ buf = Zeros(BufSize)
    /\ received = 0
    /\ inbound = [kind |-> "none", bytes |-> <<>>]
    /\ source = "none"
    /\ request = NoRes
    /\ qi = 0
    /\ answers = <<>>
    /\ upstream = <<>>
    /\ sent = <<>>

\* DnsServer::work: recv_from returns a datagram, the buffer is parsed and, with
\* the dummy resolver, resolved; with the forwarding resolver resolve() starts.
ServerRecv ==
    /\ pc = "listen" /\ received < MaxDatagrams
    /\ \E d \in Datagrams, src \in Clients :
          LET Resolve(parsed) ==
                  IF parsed.kind # "ok"
                  THEN /\ pc' = IF parsed.kind = "hang" THEN "hung" ELSE "halted"
                       /\ request' = NoRes /\ qi' = 0 /\ answers' = <<>>
                  ELSE /\ request' = parsed.msg
                       /\ IF mode = "dummy"
                          THEN /\ answers' = DummyResolve(parsed.msg.header,
                                                          parsed.msg.questions)
                               /\ qi' = 0
                               /\ pc' = "respond"
                          ELSE /\ answers' = <<>>
                               /\ qi' = 1
                               /\ pc' = IF Len(parsed.msg.questions) = 0
                                        THEN "respond" ELSE "forward_send"
          IN  /\ buf' = RecvInto(buf, d)
              /\ inbound' = [kind |-> "datagram", bytes |-> d]
              /\ source' = src
              /\ Resolve(MessageParseFrom(RecvInto(buf, d), overflow_checks))
    /\ received' = received + 1
    /\ upstream' = <<>>
    /\ sent' = <<>>
    /\ UNCHANGED <<overflow_checks, step, arg, res, mode>>

\* The Err arm with continue instead of break: the loop goes on.
ServerRecvErrContinue ==
    /\ pc = "listen"
    /\ pc' = "listen"
    /\ inbound' = [kind |-> "error", bytes |-> <<>>]
    /\ UNCHANGED <<overflow_checks, step, arg, res, mode, buf, received, source,
                   request, qi, answers, upstream, sent>>

\* DnsServer::work: recv_from returns an error, the loop is left.
ServerRecvErr ==
    /\ pc = "listen"
    /\ pc' = "stopped"
    /\ inbound' = [kind |-> "error", bytes |-> <<>>]
    /\ UNCHANGED <<overflow_checks, step, arg, res, mode, buf, received, source,
                   request, qi, answers, upstream, sent>>

\* ForwardingDnsResolver::resolve: the request for question qi is built and
\* sent; expect() panics when the send fails.
ForwardSend ==
    /\ pc = "forward_send"
    /\ LET Send(fwd_request, encoded) ==
               \E ok \in BOOLEAN :
                  /\ upstream' = Append(upstream,
                                        [op |-> "send", q |-> qi, ok |-> ok /\ encoded.ok,
                                         msg |-> fwd_request, bytes |-> encoded.bytes])
                  /\ pc' = IF ok /\ encoded.ok THEN "forward_recv" ELSE "halted"
           Build(fwd_request) == Send(fwd_request, MessageEncode(fwd_request))
       IN  Build(MessageNew(ForwardHeader(request.header), <<request.questions[qi]>>, <<>>))
    /\ UNCHANGED <<overflow_checks, step, arg, res, mode, buf, received, inbound,
                   source, request, qi, answers, sent>>

\* resolve() with a return inside the loop: it returns after the first question.
AfterQuestionEarly == "respond"

\* Where resolve() goes after question qi: the next question or the return.
AfterQuestion == IF qi = Len(request.questions) THEN "respond" ELSE "forward_send"

\* The Err arm with a retry: the same question is sent again.
RecvErrorRetry ==
    /\ upstream' = Append(upstream,
                          [op |-> "recv", q |-> qi, ok |-> FALSE, answers |-> <<>>])
    /\ answers' = answers
    /\ qi' = qi
    /\ pc' = "forward_send"

\* recv_from on the upstream socket returns an error: it is logged, nothing is
\* pushed, the loop goes on.
RecvError ==
    /\ upstream' = Append(upstream,
                          [op |-> "recv", q |-> qi, ok |-> FALSE, answers |-> <<>>])
    /\ answers' = answers
    /\ qi' = qi + 1
    /\ pc' = AfterQuestion

\* recv_from on the upstream socket returns a reply r: it is received into a
\* fresh zeroed buffer, the buffer is parsed and the answers are pushed.
RecvReply ==
    \E r \in UpstreamReplies :
        LET Push(fwd_response) ==
                IF fwd_response.kind # "ok"
                THEN /\ pc' = IF fwd_response.kind = "hang" THEN "hung" ELSE "halted"
                     /\ answers' = answers
                     /\ qi' = qi
                ELSE /\ answers' = answers \o fwd_response.msg.answers
                     /\ qi' = qi + 1
                     /\ pc' = AfterQuestion
        IN  /\ upstream' = Append(upstream,
                                  [op |-> "recv", q |-> qi, ok |-> TRUE,
                                   answers |-> r.answers])
            /\ Push(MessageParseFrom(RecvInto(Zeros(BufSize), r.bytes), overflow_checks))

\* recv_from with a read timeout: the wait can also end with nothing received,
\* and the question is given up.
ForwardRecvTimeout ==
    /\ pc = "forward_recv"
    /\ \/ RecvError
       \/ RecvReply
       \/ (upstream' = upstream /\ answers' = answers /\ qi' = qi + 1
            /\ pc' = AfterQuestion)
    /\ UNCHANGED <<overflow_checks, step, arg, res, mode, buf, received, inbound,
                   source, request, sent>>

\* ForwardingDnsResolver::resolve: the one recv_from of question qi returns.
ForwardRecv ==
    /\ pc = "forward_recv"
    /\ (RecvError \/ RecvReply)
    /\ UNCHANGED <<overflow_checks, step, arg, res, mode, buf, received, inbound,
                   source, request, sent>>

\* DnsServer::work: the response is built, encoded and sent to the source;
\* expect() panics when the send fails.
Respond ==
    /\ pc = "respond"
    /\ LET Send(response, encoded) ==
               \E ok \in BOOLEAN :
                  IF ok /\ encoded.ok
                  THEN /\ sent' = Append(sent, [to |-> source, msg |-> response,
                                                bytes |-> encoded.bytes])
                       /\ pc' = "listen"
                  ELSE /\ sent' = sent
                       /\ pc' = "halted"
           Build(response) == Send(response, MessageEncode(response))
       IN  Build(MessageNew(ResponseHeader(request.header, Len(answers)),
                            request.questions, answers))
    /\ UNCHANGED <<overflow_checks, step, arg, res, mode, buf, received, inbound,
                   source, request, qi, answers, upstream>>

Next ==
    \/ ServerRecv
    \/ ServerRecvErr
    \/ ForwardSend
    \/ ForwardRecv
    \/ Respond

Spec == ServerInit /\ [][Next]_vars

(***************************************************************************)
(* Claims on the resolvers                                                 *)
(***************************************************************************)
\* C7: the dummy resolver returns one answer per question, in question order,
\* each with the question's name, type 1, class 1, ttl 60 and data 8.8.8.8,
\* whatever the request's header is.
C7_SyntheticResolver ==
    (mode = "dummy" /\ pc \in {"respond", "listen", "halted", "stopped"}
     /\ request # NoRes) =>
        /\ Len(answers) = Len(request.questions)
        /\ \A i \in 1..Len(request.questions) :
              answers[i] = [name |-> request.questions[i].name, type |-> 1, class |-> 1,
                            ttl |-> 60, data |-> <<8, 8, 8, 8>>]

\* C7 witness: two questions with different names were resolved.
C7_Witness_TwoQuestions ==
    /\ mode = "dummy" /\ pc = "respond"
    /\ Len(request.questions) = 2
    /\ request.questions[1].name # request.questions[2].name
    /\ answers[2].name = <<LabelA, LabelBc, LabelA>>

\* C8: every message sent upstream has a fresh header with the request's id and
\* opcode, qr = false, rd = false, qd_count = 1, an_count = 0, and holds exactly
\* the one question being forwarded and no answers.
C8_ForwardRequestShape ==
    \A k \in 1..Len(upstream) :
        upstream[k].op = "send" =>
            /\ upstream[k].msg.header =
                  [HeaderDefault EXCEPT !.id = request.header.id,
                                        !.opcode = request.header.opcode,
                                        !.qd_count = 1]
            /\ upstream[k].msg.questions = <<request.questions[upstream[k].q]>>
            /\ upstream[k].msg.answers = <<>>

LastEvent(log) == log[Len(log)]
IoFailed(before, after) == Len(after) = Len(before) + 1 /\ ~ LastEvent(after).ok

\* The answers of the replies received so far, in the order of the questions;
\* a failed receive counts for none.
RECURSIVE ReplyAnswers(_)
ReplyAnswers(log) ==
    IF log = <<>> THEN <<>>
    ELSE ReplyAnswers(SubSeq(log, 1, Len(log) - 1))
         \o (IF LastEvent(log).op = "recv" THEN LastEvent(log).answers ELSE <<>>)

\* C9 as stated: an I/O error of the upstream round trip, on the send or on the
\* receive, adds no answer and does not halt the process.
C9_AnyIoErrorTolerated ==
    [][IoFailed(upstream, upstream') =>
         (answers' = answers /\ pc' \in {"forward_send", "respond"})]_vars

\* C10: the upstream socket sees, for question 1, 2, ... in turn, one send then
\* one receive, never a second send or receive for a question; the answers
\* resolve() holds are those of the received replies, in question order and in
\* each reply's order.
C10_ForwardingOrder ==
    /\ \A k \in 1..Len(upstream) :
          /\ upstream[k].op = (IF k % 2 = 1 THEN "send" ELSE "recv")
          /\ upstream[k].q = (k + 1) \div 2
          /\ (upstream[k].op = "send" /\ k < Len(upstream)) => upstream[k].ok
    /\ pc = "forward_send" => Len(upstream) = 2 * (qi - 1)
    /\ pc = "forward_recv" => Len(upstream) = 2 * qi - 1
    /\ (mode = "forward" /\ pc \in {"forward_send", "forward_recv", "respond"}) =>
          answers = ReplyAnswers(upstream)
    /\ (mode = "forward" /\ pc = "respond") => Len(upstream) = 2 * Len(request.questions)

\* C10 witness: two questions were forwarded and both replies received, the first
\* with one answer and the second with two.
C10_Witness_TwoReplies ==
    /\ mode = "forward" /\ pc = "respond"
    /\ Len(request.questions) = 2 /\ Len(upstream) = 4
    /\ upstream[2].ok /\ upstream[4].ok
    /\ answers = <<ReplyAnswer1, ReplyAnswer2, ReplyAnswer1>>

(***************************************************************************)
(* Claims on the server loop                                               *)
(***************************************************************************)
\* The header of the datagram the server is working on.
InboundHeader == HeaderParseFrom(SubSeq(inbound.bytes, 1, HeaderSize)).h

\* C11: the header of every response has the id, opcode and rd of the request's
\* header, qr = true, rcode NoError for opcode Query and NotImplemented for any
\* other opcode, the request's qd_count, an_count = the number of answers of the
\* resolver, and aa, tc, ra, z, ns_count, ar_count zero; and so it is encoded.
C11_ResponseHeader ==
    \A k \in 1..Len(sent) :
        LET Expected(rq) ==
                [id |-> rq.id, qr |-> TRUE, opcode |-> rq.opcode, aa |-> FALSE,
                 tc |-> FALSE, rd |-> rq.rd, ra |-> FALSE, z |-> 0,
                 rcode |-> IF OpCodeToU8(rq.opcode) = 0
                           THEN Plain("NoError") ELSE Plain("NotImplemented"),
                 qd_count |-> rq.qd_count, an_count |-> Len(answers),
                 ns_count |-> 0, ar_count |-> 0]
        IN  inbound.kind = "datagram" =>
            /\ sent[k].msg.header = Expected(InboundHeader)
            /\ SubSeq(sent[k].bytes, 1, HeaderSize) = LayoutBytes(Expected(InboundHeader))

\* C11 witness: a request with opcode IQUERY and rd set was answered with
\* NotImplemented and one answer.
C11_Witness_NotImplemented ==
    /\ Len(sent) = 1
    /\ sent[1].msg.header.rcode = Plain("NotImplemented")
    /\ sent[1].msg.header.rd /\ sent[1].msg.header.opcode = Plain("IQuery")
    /\ sent[1].msg.header.an_count = 1

\* C12: every response holds the questions parsed from the request, unchanged
\* and in order, and exactly the answers of the resolver; its counts are the
\* numbers of questions and answers its bytes hold; and the request is still
\* what was parsed from the buffer when the resolver has run.
C12_ResponseBody ==
    LET Same(r, decoded) ==
            /\ r.msg.questions = request.questions
            /\ r.msg.answers = answers
            /\ r.msg.header.qd_count = Len(r.msg.questions)
            /\ r.msg.header.an_count = Len(r.msg.answers)
            /\ decoded.kind = "ok"
            /\ decoded.msg.header.qd_count = Len(r.msg.questions)
            /\ decoded.msg.header.an_count = Len(r.msg.answers)
            /\ decoded.msg.questions = r.msg.questions
            /\ decoded.msg.answers = r.msg.answers
        Kept(parsed) == parsed.kind = "ok" /\ request = parsed.msg
    IN  /\ \A k \in 1..Len(sent) :
              Same(sent[k], MessageParseFrom(sent[k].bytes, overflow_checks))
        /\ (pc \in {"forward_send", "forward_recv", "respond"} \/ sent # <<>>) =>
              Kept(MessageParseFrom(buf, overflow_checks))

\* C12 witness: a response with two questions and the three answers of two
\* upstream replies was sent.
C12_Witness_TwoQuestions ==
    /\ mode = "forward" /\ Len(sent) = 1
    /\ Len(sent[1].msg.questions) = 2
    /\ sent[1].msg.answers = <<ReplyAnswer1, ReplyAnswer2, ReplyAnswer1>>

\* C13: no datagram is received between the receipt of a datagram and its
\* response (or the halt); a response is sent only when, in forwarding mode, the
\* round trip of every question has returned; and a datagram that was processed
\* has exactly one response, sent to the address it came from.
C13_OneRequestAtATime ==
    /\ [][pc # "listen" => received' = received]_vars
    /\ [][(sent' # sent /\ sent' # <<>>) =>
             /\ pc = "respond" /\ sent = <<>> /\ Len(sent') = 1
             /\ sent'[1].to = source
             /\ mode = "forward" =>
                   /\ Len(upstream) = 2 * Len(request.questions)
                   /\ \A i \in 1..Len(request.questions) :
                         upstream[2 * i].op = "recv" /\ upstream[2 * i].q = i
          ]_vars
    /\ []((pc = "listen" /\ inbound.kind = "datagram") =>
             Len(sent) = 1 /\ sent[1].to = source)
    /\ [](pc \in {"forward_send", "forward_recv", "respond"} => sent = <<>>)

\* C13 witness: the second datagram, of two questions, was answered after its two
\* upstream round trips.
C13_Witness_SecondAnswered ==
    /\ mode = "forward" /\ pc = "listen" /\ received = 2
    /\ Len(upstream) = 4 /\ Len(sent) = 1 /\ sent[1].to = "client2"

\* C14: the outcome of a datagram depends on its bytes alone: the request the
\* server works on, the failure, and the questions of the response are those
\* the same datagram gives as the first datagram of a run.
C14_NoStateAcrossRequests ==
    LET AsFirst(first) ==
            IF first.kind = "ok"
            THEN /\ request = first.msg
                 /\ \A k \in 1..Len(sent) : sent[k].msg.questions = first.msg.questions
            ELSE request = NoRes /\ pc \in {"halted", "hung"} /\ sent = <<>>
    IN  inbound.kind = "datagram" =>
            AsFirst(MessageParseFrom(RecvInto(Zeros(BufSize), inbound.bytes),
                                     overflow_checks))

\* The message is malformed: its own bytes do not hold what it declares.
Malformed(datagram) == MessageParseFrom(datagram, overflow_checks).kind # "ok"

\* C15: a malformed inbound message halts the process and gets no response; and
\* every response carries rcode NoError or NotImplemented.
C15_MalformedIsFatal ==
    /\ (inbound.kind = "datagram" /\ Malformed(inbound.bytes)) =>
          pc = "halted" /\ sent = <<>>
    /\ \A k \in 1..Len(sent) :
          sent[k].msg.header.rcode \in {Plain("NoError"), Plain("NotImplemented")}

\* C16: once recv_from on the endpoint has returned an error the loop is left:
\* no datagram is received, no upstream request and no response is sent after it.
C16_RecvErrorStops ==
    /\ [](inbound.kind = "error" => pc = "stopped")
    /\ [][inbound.kind = "error" =>
             (pc' = "stopped" /\ received' = received /\ upstream' = upstream
              /\ sent' = sent)]_vars

\* C16 witness: the error came after one datagram was answered.
C16_Witness_StoppedAfterOne ==
    pc = "stopped" /\ inbound.kind = "error" /\ received = 1 /\ Len(sent) = 1

\* C18: while the receive for a forwarded question has not returned, no inbound
\* datagram is read and no response is sent, and the server stays in the
\* receive: nothing but the return of the receive ends the wait, so with an
\* upstream that never replies neither this request nor a later one is answered.
C18_NoUpstreamTimeout ==
    /\ [](pc = "forward_recv" => sent = <<>>)
    /\ [][pc = "forward_recv" =>
             /\ received' = received /\ sent' = sent
             /\ upstream' = upstream => pc' = "forward_recv"
          ]_vars

\* C18 witness: the server waits for the reply to the second question of the
\* second datagram.
C18_Witness_Waiting ==
    pc = "forward_recv" /\ qi = 2 /\ received = 2 /\ Len(upstream) = 3

(***************************************************************************)
(* Claims on names and reserved bits                                       *)
(***************************************************************************)
\* The uncompressed wire form of a name: [len][bytes] per label, then 0x00.
RECURSIVE PlainWire(_)
PlainWire(labels) ==
    IF labels = <<>> THEN <<0>>
    ELSE <<Len(Head(labels))>> \o Head(labels) \o PlainWire(Tail(labels))

\* Position, in the wire form, of the length byte of label i.
LengthBytePos(labels, i) == Len(PlainWire(SubSeq(labels, 1, i - 1)))

\* C17: LabelSequence::encode accepts exactly the names whose labels are at most
\* 255 bytes long; its output is, label by label, a length byte and the label's
\* bytes, then one 0x00; no length byte has its two top bits set or is the
\* terminator, so decoding the output reads the same labels and no pointer.
C17_EncodeNeverCompresses ==
    step = "name_encoded" =>
        /\ res.encoded.ok <=> \A i \in 1..Len(arg.labels) : Len(arg.labels[i]) <= 255
        /\ res.encoded.ok =>
              /\ res.encoded.bytes = PlainWire(arg.labels)
              /\ \A i \in 1..Len(arg.labels) :
                    /\ res.encoded.bytes[LengthBytePos(arg.labels, i)] < 192
                    /\ res.encoded.bytes[LengthBytePos(arg.labels, i)] # 0
              /\ res.decoded.kind = "ok"
              /\ res.decoded.labels = arg.labels
              /\ res.decoded.length = Len(res.encoded.bytes)

\* C19: Header::encode emits 0 in bits 6-4 of byte 3 for every Header, those
\* parse_from yields included.
C19_ReservedBitsZero ==
    step = "encoded" => BitAnd(res.encoded[4], 112) = 0

\* C20: the length parse_label_sequence reports for a name at start is the
\* number of bytes from start to the terminator when the name has no pointer,
\* and from start to the second byte of the first pointer otherwise, whatever
\* is reached after the jump.
C20_FirstPointerLength ==
    (step = "named" /\ arg.kind = "name" /\ arg.shape \in PointerShapes \cup {"plain"}) =>
        res.name.kind = "ok" /\ res.name.length = Len(arg.wire)

\* Section index of the pointer that ends a name with one pointer.
PointerIndex == arg.start + Len(arg.wire) - 2

\* C21 as stated: after a name that ends in a pointer the type is read at the
\* pointer's second byte, the reported length leaving that byte out.
C21_SecondByteNotCounted ==
    (arg.kind = "name" /\ arg.shape \in {"backward", "forward"}) =>
        /\ step = "named" => res.name.length = PointerIndex - arg.start + 1
        /\ step = "resumed" => res.current_index = PointerIndex + 1

\* C21, amended: for a name that ends in its only pointer, the pointer not
\* at section index 0, the reported length counts both bytes of the pointer, and
\* the caller reads the type at the byte after the pointer's second byte.
C21_BothBytesCounted ==
    (arg.kind = "name" /\ arg.shape \in {"backward", "forward"} /\ PointerIndex # 0) =>
        /\ step = "named" =>
              res.name.kind = "ok" /\ res.name.length = PointerIndex - arg.start + 2
        /\ step = "resumed" =>
              /\ res.current_index = PointerIndex + 2
              /\ res.type = [kind |-> "ok", v |-> 1]

C21_Witness_TypeAfterPointer ==
    /\ step = "resumed" /\ arg.kind = "name" /\ arg.shape = "backward"
    /\ Len(arg.wire) = 4 /\ arg.start = 6
    /\ res.current_index = 10 /\ res.type.kind = "ok"

\* The index the loop of a name walk goes to from index i, or -1 when the walk
\* ends there (terminator, or a failure), in terms of the bytes alone.
WalkStep(data, i) ==
    IF i < 0 \/ i >= Len(data) THEN -1
    ELSE IF data[i + 1] = 0 THEN -1
    ELSE IF data[i + 1] < 192
    THEN IF i + data[i + 1] >= Len(data) THEN -1 ELSE i + data[i + 1] + 1
    ELSE IF i + 1 >= Len(data) THEN -1
    ELSE (data[i + 1] - 192) * 256 + data[i + 2] - 12

\* The index reached after n turns of the loop, -1 once the walk has ended.
RECURSIVE WalkAfter(_, _, _)
WalkAfter(data, i, n) ==
    IF n = 0 \/ i = -1 THEN i ELSE WalkAfter(data, WalkStep(data, i), n - 1)

\* A walk that is still going after more turns than the data has indices has
\* been at some index twice: the indices visited form a cycle.
Cyclic(data, start) == WalkAfter(data, start, Len(data) + 1) # -1

\* C22: parse_label_sequence returns or fails on every buffer whose visited
\* indices form no cycle, names with a pointer that leads to another pointer
\* included, and never ends on a buffer whose pointers form a cycle.
C22_TerminatesUnlessCyclic ==
    (step = "named" /\ arg.kind = "name") =>
        /\ Cyclic(arg.data, arg.start) <=> res.name.kind = "hang"
        /\ ~ Cyclic(arg.data, arg.start) => res.name.kind \in {"ok", "panic"}
        /\ arg.shape = "cycle" <=> Cyclic(arg.data, arg.start)

C22_Witness_SelfPointer ==
    /\ step = "named" /\ arg.kind = "name" /\ arg.start = 3
    /\ SubSeq(arg.data, 4, 5) = <<192, 15>>
    /\ res.name.kind = "hang"

\* The walk of a name as the classification of control bytes describes it: the
\* labels collected and the index of the terminator, or a failure when the
\* cursor or a label leaves the data or the walk does not end within fuel turns.
RECURSIVE ClassifiedWalk(_, _, _, _)
ClassifiedWalk(data, cursor, collected, fuel) ==
    IF fuel = 0 \/ cursor < 0 \/ cursor >= Len(data) THEN [ok |-> FALSE]
    ELSE IF data[cursor + 1] = 0
    THEN [ok |-> TRUE, labels |-> collected, cursor |-> cursor]
    ELSE IF data[cursor + 1] <= 191
    THEN IF cursor + data[cursor + 1] >= Len(data) THEN [ok |-> FALSE]
         ELSE ClassifiedWalk(data, cursor + data[cursor + 1] + 1,
                             collected \o <<SubSeq(data, cursor + 2,
                                                   cursor + 1 + data[cursor + 1])>>,
                             fuel - 1)
    ELSE IF cursor + 1 >= Len(data) THEN [ok |-> FALSE]
    ELSE ClassifiedWalk(data, ((data[cursor + 1] % 64) * 256 + data[cursor + 2]) - 12,
                        collected, fuel - 1)

\* C23: in parse_label_sequence a byte 0 at the cursor ends the name, a byte c
\* in 1..0xBF appends the next c bytes as one label and moves the cursor by
\* c + 1, a byte c >= 0xC0 moves the cursor to (((c & 0x3F) << 8) | next) - 12,
\* and the labels are collected in the order read.
C23_ControlByteClasses ==
    (step = "named" /\ arg.kind = "name") =>
        LET ref == ClassifiedWalk(arg.data, arg.start, <<>>, Len(arg.data) + 1)
        IN  /\ (res.walk.kind = "end" /\ res.walk.null_byte_found) =>
                  /\ ref.ok
                  /\ res.walk.labels = ref.labels
                  /\ res.walk.current_index = ref.cursor
            /\ (ref.ok /\ \A i \in 1..Len(ref.labels) : Utf8Valid(ref.labels[i])) =>
                  res.walk.kind = "end" /\ res.walk.null_byte_found

C23_Witness_HighOffset ==
    /\ step = "named" /\ arg.kind = "name" /\ arg.start = 0
    /\ Len(arg.data) > 250 /\ SubSeq(arg.data, 1, 4) = <<1, 97, 193, 6>>
    /\ res.walk.kind = "end" /\ res.walk.null_byte_found
    /\ res.walk.labels = <<LabelA, LabelBc>>
    /\ res.walk.current_index = 253

\* C24: Message::parse_from fails on a buffer shorter than 12 bytes, on a name
\* whose walk leaves the buffer before a terminator, on a record whose fixed
\* fields are cut off and on an answer whose declared data length exceeds the
\* bytes that remain; an answer that parses holds exactly the declared number
\* of data bytes, and what is parsed fits in the buffer.
C24_NothingOutsideTheBuffer ==
    /\ (step = "parsed" /\ arg.kind \in {"buffer", "payload"}) =>
          /\ Len(arg.data) < HeaderSize => res.parsed.kind = "panic"
          /\ res.parsed.kind \in {"ok", "panic"}
    /\ (step = "parsed" /\ arg.kind = "buffer"
        /\ arg.qd = Len(arg.questions) /\ arg.an = Len(arg.answers)) =>
          /\ res.parsed.kind = "ok" <=> arg.cut = 0
          /\ res.parsed.kind = "ok" =>
                /\ Len(MessageEncode(res.parsed.msg).bytes) <= Len(arg.data)
                /\ \A i \in 1..arg.an :
                      res.parsed.msg.answers[i].data = arg.answers[i].data
    /\ (step = "parsed" /\ arg.kind = "payload") =>
          /\ res.parsed.kind = "ok" <=> arg.lost = "none"
          /\ res.parsed.kind = "ok" =>
                /\ Len(res.parsed.msg.answers) = 1
                /\ res.parsed.msg.answers[1].data = arg.rdata

C24_Witness_DataCutOff ==
    /\ step = "parsed" /\ arg.kind = "payload" /\ arg.lost = "data"
    /\ Len(arg.data) = 26 /\ SubSeq(arg.data, 22, 23) = <<0, 4>>
    /\ res.parsed.kind = "panic"

\* C25: the server parses the n bytes of the datagram and nothing else: the
\* request it works on is what those n bytes hold, and a datagram whose bytes do
\* not hold what its header declares stops the server and gets no response.
C25_OnlyDatagramBytes ==
    LET Own(own) ==
            IF own.kind = "ok"
            THEN request = own.msg
            ELSE request = NoRes /\ pc \in {"halted", "hung"} /\ sent = <<>>
    IN  inbound.kind = "datagram" => Own(MessageParseFrom(inbound.bytes, overflow_checks))

\* C26: a name that consists of one pointer is reported with length 2 and the
\* caller resumes right after the pointer, wherever the pointer is, section
\* index 0 included.
C26_PointerPositionIndependent ==
    (arg.kind = "name" /\ arg.shape \in {"backward", "forward"} /\ Len(arg.wire) = 2) =>
        /\ step = "named" => res.name.kind = "ok" /\ res.name.length = 2
        /\ step = "resumed" =>
              res.current_index = arg.start + 2 /\ res.type = [kind |-> "ok", v |-> 1]

\* C27: a pointer whose 14-bit offset is below 12 never yields a name: the
\* subtraction of 12 traps, or wraps to an index outside the data, and the parse
\* fails without a label having been read at the wrapped index.
C27_HeaderPointerFails ==
    (step = "named" /\ arg.kind = "name" /\ arg.shape = "header") =>
        /\ res.name.kind = "panic"
        /\ overflow_checks => res.walk.kind = "panic"
        /\ ~ overflow_checks =>
              /\ res.walk.kind = "end" /\ ~ res.walk.null_byte_found
              /\ res.walk.current_index = 65536 + arg.data[5] - HeaderSize
              /\ res.walk.current_index >= Len(arg.data)
              /\ res.walk.labels = <<>>

C27_Witness_Wrapped ==
    /\ step = "named" /\ arg.kind = "name" /\ arg.shape = "header"
    /\ ~ overflow_checks /\ SubSeq(arg.data, 4, 5) = <<192, 5>>
    /\ res.walk.current_index = 65529 /\ res.name.kind = "panic"

\* C28: a request whose opcode is not Query is resolved like any other: the
\* dummy resolver answers every question, the forwarding resolver sends every
\* question upstream, and the response carries the resolver's answers, an_count
\* their number, with rcode NotImplemented.
C28_NonQueryStillResolved ==
    \A k \in 1..Len(sent) :
        OpCodeToU8(request.header.opcode) # 0 =>
            /\ sent[k].msg.header.rcode = Plain("NotImplemented")
            /\ sent[k].msg.answers = answers
            /\ sent[k].msg.header.an_count = Len(answers)
            /\ mode = "dummy" =>
                  /\ Len(answers) = Len(request.questions)
                  /\ Len(answers) > 0
            /\ mode = "forward" =>
                  /\ Len(upstream) = 2 * Len(request.questions)
                  /\ \A q \in 1..Len(request.questions) :
                        /\ upstream[2 * q - 1].op = "send" /\ upstream[2 * q - 1].ok
                        /\ upstream[2 * q - 1].msg.questions = <<request.questions[q]>>
                  /\ answers = ReplyAnswers(upstream)

C28_Witness_ForwardedIQuery ==
    /\ mode = "forward" /\ Len(sent) = 1
    /\ request.header.opcode = Plain("IQuery")
    /\ Len(upstream) = 2 /\ upstream[1].msg.questions = <<QuestionA>>
    /\ sent[1].msg.header.rcode = Plain("NotImplemented")
    /\ sent[1].msg.answers = <<ReplyAnswer2, ReplyAnswer1>>

\* C29: every response datagram the server sends is at most 512 bytes long.
C29_ResponseFitsBuffer ==
    \A k \in 1..Len(sent) : Len(sent[k].bytes) <= BufSize

\* C30: the parser of src/dns.rs and the parser of src/server/dns.rs both fail
\* or both return the same questions and the same answers, on every buffer,
\* names with compression pointers included.
C30_ParsersAgree ==
    step = "compared" =>
        /\ res.inline.kind = "ok" <=> res.parsed.kind = "ok"
        /\ res.inline.kind = "ok" =>
              /\ res.inline.msg.questions = res.parsed.msg.questions
              /\ res.inline.msg.answers = res.parsed.msg.answers

====
